---- MODULE Spec2Model ----
(***************************************************************************)
(* Model of the citation engine of clipboard-citation-pickup:              *)
(* src/citation.py (Citation, CitationManager) and the summary parser of   *)
(* src/ai.py (OpenAIHelper.generateCitationSummaries).                     *)
(*                                                                         *)
(* A Python str is a sequence of tokens.  A token is a literal chunk of    *)
(* characters that the patterns of the code treat as a unit ("PMID:", a    *)
(* run of digits, a blank, a code fragment); len() is the sum of the       *)
(* chunks' lengths.  Indices handed to the manager are Python's (0-based). *)
(***************************************************************************)
EXTENDS Integers, Sequences, FiniteSets, TLC

(***************************************************************************)
(* Bounds of the model.                                                    *)
(***************************************************************************)
MaxCitations == 3      \* records in memory, and records in all files together
MaxNoteParts == 2      \* note fragments a record may accumulate
MaxLines == 2      \* lines of a provider response
MaxPrompts == 2      \* note prompts open at the same time

(***************************************************************************)
(* str helpers.                                                            *)
(***************************************************************************)
Whitespace == {" ", "\n"}

RECURSIVE StrLen(_)
StrLen(s) == IF s = << >> THEN 0 ELSE Len(Head(s)) + StrLen(Tail(s))

RECURSIVE LStrip(_)
LStrip(s) ==
    IF s # << >> /\ Head(s) \in Whitespace THEN LStrip(Tail(s)) ELSE s

RECURSIVE RStrip(_)
RStrip(s) ==
    IF s # << >> /\ s[Len(s)] \in Whitespace
    THEN RStrip(SubSeq(s, 1, Len(s) - 1))
    ELSE s

\* str.strip()
Strip(s) == RStrip(LStrip(s))

\* `tok in s` for a literal fragment tok
Contains(s, tok) == \E i \in DOMAIN s : s[i] = tok

\* `frag in s` for a fragment of several tokens
ContainsSeq(s, frag) ==
    \E i \in 1..(Len(s) - Len(frag) + 1) :
        SubSeq(s, i, i + Len(frag) - 1) = frag

\* position of the first token at or after i that is not whitespace (\s*)
RECURSIVE SkipWs(_, _)
SkipWs(s, i) ==
    IF i <= Len(s) /\ s[i] \in Whitespace THEN SkipWs(s, i + 1) ELSE i

\* the chunks that are runs of digits
IsDigits(s, i) == i \in DOMAIN s /\ s[i] \in {"12345", "6", "2013"}

\* the greedy run of digits that starts at position i (\d+)
RECURSIVE DigitRun(_, _)
DigitRun(s, i) ==
    IF IsDigits(s, i) THEN <<s[i]>> \o DigitRun(s, i + 1) ELSE << >>

(***************************************************************************)
(* CitationManager.isPubmedCitation                                        *)
(***************************************************************************)
MinCitationLen == 20

\* four of the fragments end with a blank, which is a token of its own
code_indicators ==
    {<<"def", " ">>, <<"import", " ">>, <<"class", " ">>, <<"return", " ">>,
     <<"if __name__">>, <<"from typing">>, <<"PyQt">>, <<"QApplication">>,
     <<"print(">>, <<"\"\"\"">>}

\* re.search(r'PMID:\s*\d+', text)
has_pmid(text) ==
    \E i \in DOMAIN text : text[i] = "PMID:" /\ IsDigits(text, SkipWs(text, i + 1))

\* re.search(r'doi:\s*10\.\d+', text)
has_doi(text) ==
    \E i \in DOMAIN text :
        /\ text[i] = "doi:"
        /\ LET j == SkipWs(text, i + 1)
           IN  j \in DOMAIN text /\ text[j] = "10." /\ IsDigits(text, j + 1)

\* re.search(r'\d{4}[;\s][A-Za-z\s]+\d+\(\d+\):\d+', text)
has_journal_format(text) ==
    \E i \in DOMAIN text :
        /\ text[i] = "2013"
        /\ i + 3 \in DOMAIN text
        /\ text[i + 1] \in {";", " ", "\n"}
        /\ text[i + 2] = "Nature "
        /\ text[i + 3] = "23(6):914"

\* re.search(r'^[A-Z][a-z]+\s+[A-Z]{1,3}[a-z]*.*\d{4}', text): anchored at
\* the start of the text, and `.` does not cross a line break
has_author_year(text) ==
    /\ text # << >>
    /\ text[1] = "Smith JB"
    /\ \E i \in DOMAIN text :
           /\ i > 1
           /\ text[i] \in {"2013", "12345"}
           /\ \A k \in 2..(i - 1) : text[k] # "\n"

BoolToInt(b) == IF b THEN 1 ELSE 0

strong_indicators(text) ==
    BoolToInt(has_pmid(text)) + BoolToInt(has_doi(text))
      + BoolToInt(has_journal_format(text) /\ has_author_year(text))

\* 'epub' in text.lower(), 'pmcid:' in text.lower()
weak_indicators(text) ==
    BoolToInt(Contains(text, "Epub") \/ Contains(text, "epub"))
      + BoolToInt(Contains(text, "PMCID:") \/ Contains(text, "pmcid:"))

\* the classifier measuring the text as given, before it is trimmed
isPubmedCitation_RawLength(raw) ==
    LET text == Strip(raw)
    IN  IF StrLen(raw) < MinCitationLen THEN FALSE
        ELSE IF \E ind \in code_indicators : ContainsSeq(text, ind) THEN FALSE
        ELSE strong_indicators(text) >= 1 \/ weak_indicators(text) >= 2

isPubmedCitation(raw) ==
    LET text == Strip(raw)
    IN  IF StrLen(text) < MinCitationLen THEN FALSE
        ELSE IF \E ind \in code_indicators : ContainsSeq(text, ind) THEN FALSE
        ELSE strong_indicators(text) >= 1 \/ weak_indicators(text) >= 2

(***************************************************************************)
(* Citation (dataclass) and its inputs.                                    *)
(***************************************************************************)
\* Optional[str]: None, or a str
None == [isNone |-> TRUE, val |-> << >>]
Some(v) == [isNone |-> FALSE, val |-> v]

\* datetime.now(): seconds and microseconds of a naive datetime
Timestamps == {[sec |-> 1, usec |-> 0], [sec |-> 1, usec |-> 5]}

Citation(text, timestamp, pmid, notes, summary) ==
    [text |-> text, timestamp |-> timestamp, pmid |-> pmid,
     notes |-> notes, summary |-> summary]

\* clipboard texts
Body == "Glia regulate myelin."

PmidText == <<Body, " ", "PMID:", " ", "12345">>
PaddedText == <<" ", Body, " ", "PMID:", " ", "12345", "\n">>
DoiText == <<Body, " ", "doi:", " ", "10.", "6">>
EpubText == <<Body, " ", "Epub", " ", "PMCID:", "6">>
ShortText == <<"PMID:", " ", "12345">>
CodeText == <<"def", " ", Body, " ", "PMID:", " ", "12345">>
WeakText == <<Body, " ", "Epub">>

\* names of libraries: three that the window would produce, one of a file
\* that a file manager left in the home directory (a copy of lab's file),
\* and that name as the window sanitizes it
LibraryNames == {"archive", "default", "lab", "lab copy", "lab_copy"}

(***************************************************************************)
(* Persisted files.  A file is absent, holds the JSON list that            *)
(* saveCitations dumped, or holds a truncated (unparseable) dump.          *)
(***************************************************************************)
\* one file name for every library
DataFile_Shared(library_name) == <<".pubmed_citations_", "default", ".json">>

\* Path.home() / f".pubmed_citations_{library_name}.json"
DataFile(library_name) == <<".pubmed_citations_", library_name, ".json">>

Paths == {DataFile(n) : n \in LibraryNames}

Absent == [kind |-> "absent", data |-> << >>]
Json(data) == [kind |-> "json", data |-> data]
Corrupt == [kind |-> "corrupt", data |-> << >>]

\* datetime.isoformat(timespec='seconds'): the microseconds are left out
isoformat_Seconds(ts) == <<ts.sec>>

\* datetime.isoformat(): the microseconds are printed only when non-zero
isoformat(ts) == IF ts.usec = 0 THEN <<ts.sec>> ELSE <<ts.sec, ts.usec>>

\* a parser that reads the seconds only
fromisoformat_NoMicroseconds(s) == [sec |-> s[1], usec |-> 0]

\* datetime.fromisoformat()
fromisoformat(s) == [sec |-> s[1], usec |-> IF Len(s) > 1 THEN s[2] ELSE 0]

\* the dict saveCitations builds for one citation
ToItem(c) ==
    [text |-> c.text, timestamp |-> isoformat(c.timestamp), pmid |-> c.pmid,
     notes |-> c.notes, summary |-> c.summary]

\* dict.get(key, default)
Get(item, key, default) == IF key \in DOMAIN item THEN item[key] ELSE default

\* the Citation loadCitations builds from one item
FromItem(item) ==
    Citation(item.text, fromisoformat(item.timestamp), Get(item, "pmid", None),
             Get(item, "notes", << >>), Get(item, "summary", << >>))

\* item['text'] and item['timestamp'] are there (else KeyError) and the
\* timestamp parses: datetime.fromisoformat() accepts the two shapes that
\* isoformat() writes; anything else raises ValueError
Parses(item) ==
    /\ "text" \in DOMAIN item
    /\ "timestamp" \in DOMAIN item
    /\ Len(item.timestamp) \in {1, 2}

Serialize(citations) == [i \in DOMAIN citations |-> ToItem(citations[i])]

Deserialize(data) == [i \in DOMAIN data |-> FromItem(data[i])]

(***************************************************************************)
(* The manager's state as the methods thread it: the fields of             *)
(* CitationManager, the files under the home directory, the value the      *)
(* method returns and the calls it made (trace).                           *)
(***************************************************************************)
WriteOutcomes == {"ok", "open_fails", "dump_fails"}

Event(ev, path) == [ev |-> ev, path |-> path]

Log(st, ev) == [st EXCEPT !.trace = Append(@, Event(ev, st.data_file))]

\* CitationManager.saveCitations; wo is what the file system does with the
\* write: the exception of a failed open or dump is caught and printed
\* saveCitations resetting the list when the write fails, as loadCitations
\* does when the read fails
saveCitations_ResetsOnError(st, wo) ==
    LET data == Serialize(st.citations)
    IN  CASE wo = "ok" ->
               [Log(st, "save") EXCEPT !.files[st.data_file] = Json(data)]
          [] OTHER -> [Log(st, "save_error") EXCEPT !.citations = << >>]

\* CitationManager.saveCitations; wo is what the file system does with the
\* write: the exception of a failed open or dump is caught and printed
\* ("Error saving citations"); open(..., 'w') truncates the file before the
\* dump, so a dump that fails leaves a file that does not parse
saveCitations(st, wo) ==
    LET data == Serialize(st.citations)
    IN  CASE wo = "ok" ->
               [Log(st, "save") EXCEPT !.files[st.data_file] = Json(data)]
          [] wo = "open_fails" -> Log(st, "save_error")
          [] OTHER ->
               [Log(st, "save_error") EXCEPT !.files[st.data_file] = Corrupt]

Loaded(ok, citations) == [ok |-> ok, citations |-> citations]

\* the loop `for item in data` over the first n items, appending to
\* citations until an item raises
RECURSIVE LoadItems(_, _, _)
LoadItems(citations, data, n) ==
    IF n = 0 THEN Loaded(TRUE, citations)
    ELSE LET before == LoadItems(citations, data, n - 1)
         IN  IF ~before.ok THEN before
             ELSE IF Parses(data[n])
                  THEN Loaded(TRUE, Append(before.citations, FromItem(data[n])))
                  ELSE Loaded(FALSE, before.citations)

\* loadCitations keeping what the loop had appended when an item raised
loadCitations_KeepsParsed(st) ==
    LET f   == st.files[st.data_file]
        st1 == Log(st, "load")
    IN  CASE f.kind = "absent" -> st1
          [] f.kind = "json" ->
               [st1 EXCEPT !.citations =
                               LoadItems(@, f.data, Len(f.data)).citations]
          [] OTHER -> [st1 EXCEPT !.citations = << >>]

\* CitationManager.loadCitations: appends to self.citations; every exception
\* (json.load on a file that does not parse, KeyError, ValueError) is caught
\* and resets self.citations
loadCitations(st) ==
    LET f   == st.files[st.data_file]
        st1 == Log(st, "load")
    IN  CASE f.kind = "absent" -> st1
          [] f.kind = "json" ->
               LET loaded == LoadItems(st.citations, f.data, Len(f.data))
               IN  [st1 EXCEPT !.citations =
                                   IF loaded.ok THEN loaded.citations ELSE << >>]
          [] OTHER -> [st1 EXCEPT !.citations = << >>]

(***************************************************************************)
(* OpenAIHelper.generateCitationSummaries                                  *)
(***************************************************************************)
\* A dict str -> str is a set of key/value pairs with one pair per key.
EmptyDict == {}

\* summaries[k] = v
DictSet(d, k, v) == {kv \in d : kv.key # k} \cup {[key |-> k, val |-> v]}

\* f"{n}."
Ordinal(n) == CASE n = 1 -> "1." [] n = 2 -> "2." [] n = 3 -> "3." [] OTHER -> "4."

\* What the chat completion yields: Failed when the call raises or the
\* content is not a str, else the lines content.strip().split('\n').  A stripped
\* text starts and ends with a non-blank line unless it is empty.
RECURSIVE SeqsUpTo(_, _)
SeqsUpTo(S, n) ==
    IF n = 0 THEN {<< >>}
    ELSE LET shorter == SeqsUpTo(S, n - 1)
         IN  shorter \cup {Append(q, x) : q \in shorter, x \in S}

Failed == [ok |-> FALSE, lines |-> << >>]
Reply(lines) == [ok |-> TRUE, lines |-> lines]

\* a completion whose content is empty: "".split('\n') is one empty line
EmptyReply == Reply(<< << >> >>)

Responses ==
    LET \* lines of a provider response
        LineInputs ==
            { << >>, <<"1.", " ", "Smith: OPC">>, <<" ", "Lee: CRISPR">> }
    IN
    {Failed} \cup
    { Reply(r) : r \in
        { q \in SeqsUpTo(LineInputs, MaxLines) :
            /\ q # << >>
            /\ \/ q = << << >> >>
               \/ /\ Strip(q[1]) # << >>
                  /\ Strip(q[Len(q)]) # << >>
                  /\ q[1] = LStrip(q[1])
                  /\ q[Len(q)] = RStrip(q[Len(q)]) } }

\* the loop body without the removal of the numbering
ParseLine_KeepsOrdinal(summaries, citations, lines, i) ==
    LET line == lines[i + 1]
    IN  IF Strip(line) # << >> /\ i < Len(citations)
        THEN DictSet(summaries, citations[i + 1], Strip(line))
        ELSE summaries

\* the loop body for line i (0-based) of the response
ParseLine(summaries, citations, lines, i) ==
    LET line == lines[i + 1]
    IN  IF Strip(line) # << >> /\ i < Len(citations)
        THEN LET clean_line == Strip(line)
                 stripped   == IF clean_line[1] = Ordinal(i + 1)
                               THEN Strip(Tail(clean_line))
                               ELSE clean_line
             IN  DictSet(summaries, citations[i + 1], stripped)
        ELSE summaries

\* the loop over lines[0 .. n-1]
RECURSIVE ParseLines(_, _, _)
ParseLines(citations, lines, n) ==
    IF n = 0 THEN EmptyDict
    ELSE ParseLine(ParseLines(citations, lines, n - 1), citations, lines, n - 1)

\* the parser without the test of self.enabled
generateCitationSummaries_IgnoresEnabled(enabled, citations, resp) ==
    IF citations = << >> THEN EmptyDict
    ELSE IF ~resp.ok THEN EmptyDict
    ELSE ParseLines(citations, resp.lines, Len(resp.lines))

\* the except branch answering an empty label for every citation
generateCitationSummaries_BlanksOnError(enabled, citations, resp) ==
    IF ~enabled \/ citations = << >> THEN EmptyDict
    ELSE IF ~resp.ok
         THEN {[key |-> citations[i], val |-> << >>] : i \in DOMAIN citations}
    ELSE ParseLines(citations, resp.lines, Len(resp.lines))

generateCitationSummaries(enabled, citations, resp) ==
    IF ~enabled \/ citations = << >> THEN EmptyDict
    ELSE IF ~resp.ok THEN EmptyDict
    ELSE ParseLines(citations, resp.lines, Len(resp.lines))

\* the trace of the provider call: the request, and the report of the
\* except branch ("OpenAI request failed") when the call raised
Request(st, resp) ==
    IF resp.ok THEN Log(st, "request")
    ELSE Log(Log(st, "request"), "request_failed")

(***************************************************************************)
(* CitationManager                                                         *)
(***************************************************************************)
\* for citation in self.citations: if citation.text in summaries: ...
ApplySummaries(citations, summaries) ==
    LET Keys(d) == {kv.key : kv \in d}
        Lookup(d, k) == (CHOOSE kv \in d : kv.key = k).val
    IN  [i \in DOMAIN citations |->
            IF citations[i].text \in Keys(summaries)
            THEN [citations[i] EXCEPT
                    !.summary = Lookup(summaries, citations[i].text)]
            ELSE citations[i]]

\* updateSummaries without its closing save
updateSummaries_NoSave(st, resp, wo) ==
    IF ~st.enabled THEN st
    ELSE LET citations_needing_summary ==
                 [i \in DOMAIN st.citations |-> st.citations[i].text]
         IN  IF citations_needing_summary = << >> THEN st
             ELSE LET st1 == Request(st, resp)
                      summaries == generateCitationSummaries(
                                       st.enabled, citations_needing_summary, resp)
                  IN  [st1 EXCEPT !.citations = ApplySummaries(@, summaries)]

\* updateSummaries asking only for the records without a summary
\* (`c.text for c in self.citations if not c.summary`)
updateSummaries_OnlyMissing(st, resp, wo) ==
    IF ~st.enabled THEN st
    ELSE LET IsMissing(c) == c.summary = << >>
             missing == SelectSeq(st.citations, IsMissing)
             citations_needing_summary ==
                 [i \in DOMAIN missing |-> missing[i].text]
         IN  IF citations_needing_summary = << >> THEN st
             ELSE LET st1 == Request(st, resp)
                      summaries == generateCitationSummaries(
                                       st.enabled, citations_needing_summary, resp)
                      st2 == [st1 EXCEPT !.citations = ApplySummaries(@, summaries)]
                  IN  saveCitations(st2, wo)

\* CitationManager.updateSummaries
updateSummaries(st, resp, wo) ==
    IF ~st.enabled THEN st
    ELSE LET citations_needing_summary ==
                 [i \in DOMAIN st.citations |-> st.citations[i].text]
         IN  IF citations_needing_summary = << >> THEN st
             ELSE LET st1 == Request(st, resp)
                      summaries == generateCitationSummaries(
                                       st.enabled, citations_needing_summary, resp)
                      st2 == [st1 EXCEPT !.citations = ApplySummaries(@, summaries)]
                  IN  saveCitations(st2, wo)

\* re.search(r'PMID:\s*(\d+)', text, re.IGNORECASE): group 1 of the leftmost
\* match, or None
IsPmidMatch(text, i) ==
    /\ i \in DOMAIN text
    /\ text[i] \in {"PMID:", "pmid:"}
    /\ IsDigits(text, SkipWs(text, i + 1))

\* the identifier taken from group 0, the whole match
ExtractPmid_WholeMatch(text) ==
    IF \E i \in DOMAIN text : IsPmidMatch(text, i)
    THEN LET i == CHOOSE k \in DOMAIN text :
                      /\ IsPmidMatch(text, k)
                      /\ \A m \in 1..(k - 1) : ~IsPmidMatch(text, m)
             j == SkipWs(text, i + 1)
         IN  Some(SubSeq(text, i, j - 1) \o DigitRun(text, j))
    ELSE None

ExtractPmid(text) ==
    IF \E i \in DOMAIN text : IsPmidMatch(text, i)
    THEN LET i == CHOOSE k \in DOMAIN text :
                      /\ IsPmidMatch(text, k)
                      /\ \A m \in 1..(k - 1) : ~IsPmidMatch(text, m)
         IN  Some(DigitRun(text, SkipWs(text, i + 1)))
    ELSE None

\* the search loop comparing with the text as given, not trimmed
FindExisting_Untrimmed(citations, text) ==
    IF \E i \in DOMAIN citations : citations[i].text = text
    THEN CHOOSE i \in DOMAIN citations :
             /\ citations[i].text = text
             /\ \A k \in 1..(i - 1) : citations[k].text # text
    ELSE 0

\* the search loop of addCitation: position (1-based) of the first citation
\* whose text equals text.strip(), 0 when there is none
FindExisting(citations, text) ==
    IF \E i \in DOMAIN citations : citations[i].text = Strip(text)
    THEN CHOOSE i \in DOMAIN citations :
             /\ citations[i].text = Strip(text)
             /\ \A k \in 1..(i - 1) : citations[k].text # Strip(text)
    ELSE 0

NoteSeparator == <<"\n---\n">>

\* the new note put before the existing ones
AppendNote_Prepends(existing_notes, notes) ==
    IF existing_notes # << >>
    THEN Strip(notes) \o NoteSeparator \o existing_notes
    ELSE Strip(notes)

\* existing_citation.notes after a note is appended
AppendNote(existing_notes, notes) ==
    IF existing_notes # << >>
    THEN existing_notes \o NoteSeparator \o Strip(notes)
    ELSE Strip(notes)

Return(st, v) == [st EXCEPT !.ret = v]

\* a test that takes every notes value for a note
HasNote_Always(notes) == TRUE

\* `if notes.strip():`
HasNote(notes) == Strip(notes) # << >>

\* addCitation once the text is accepted
addAccepted(st, text, notes, now, resp, wo1, wo2) ==
    LET pmid == ExtractPmid(text)
        existing == FindExisting(st.citations, text)
    IN  IF existing # 0
        THEN IF HasNote(notes)
             THEN LET st1 == [st EXCEPT !.citations[existing].notes =
                                            AppendNote(@, notes)]
                  IN  Return(saveCitations(st1, wo1), "note_appended")
             ELSE Return(st, "False")
        ELSE LET citation == Citation(Strip(text), now, pmid, notes, << >>)
                 st1 == [st EXCEPT !.citations = Append(@, citation)]
                 st2 == saveCitations(st1, wo1)
                 st3 == updateSummaries(Log(st2, "updateSummaries"), resp, wo2)
             IN  Return(st3, "True")

\* addCitation saving before it turns a rejected text down
addCitation_SavesRejected(st, text, notes, now, resp, wo1, wo2) ==
    IF ~isPubmedCitation(text) THEN Return(saveCitations(st, wo1), "False")
    ELSE addAccepted(st, text, notes, now, resp, wo1, wo2)

addCitation(st, text, notes, now, resp, wo1, wo2) ==
    IF ~isPubmedCitation(text) THEN Return(st, "False")
    ELSE addAccepted(st, text, notes, now, resp, wo1, wo2)

\* a deletion that counts positions from one
DeleteAt_OneBased(citations, index) ==
    SubSeq(citations, 1, index - 1) \o SubSeq(citations, index + 1, Len(citations))

\* del self.citations[index] for an index in range
DeleteAt(citations, index) ==
    SubSeq(citations, 1, index) \o SubSeq(citations, index + 2, Len(citations))

\* removeCitation without the lower bound: Python takes a negative index
\* from the end of the list
removeCitation_NoLowerBound(st, index, wo) ==
    IF index < Len(st.citations)
    THEN IF index >= 0
         THEN saveCitations([st EXCEPT !.citations = DeleteAt(@, index)], wo)
         ELSE IF Len(st.citations) + index >= 0
              THEN saveCitations(
                       [st EXCEPT !.citations =
                                      DeleteAt(@, Len(st.citations) + index)], wo)
              ELSE st
    ELSE st

removeCitation(st, index, wo) ==
    IF 0 <= index /\ index < Len(st.citations)
    THEN saveCitations([st EXCEPT !.citations = DeleteAt(@, index)], wo)
    ELSE st

clearAll(st, wo) == saveCitations([st EXCEPT !.citations = << >>], wo)

\* switchLibrary that renames before it saves
switchLibrary_RenamesFirst(st, library_name, wo) ==
    LET st1 == [st EXCEPT !.library_name = library_name,
                          !.data_file = DataFile(library_name)]
        st2 == saveCitations(st1, wo)
    IN  loadCitations([st2 EXCEPT !.citations = << >>])

switchLibrary(st, library_name, wo) ==
    LET st1 == saveCitations(st, wo)
        st2 == [st1 EXCEPT !.library_name = library_name,
                           !.data_file = DataFile(library_name),
                           !.citations = << >>]
    IN  loadCitations(st2)

\* Python's order of str on the library names
Ord(name) ==
    CASE name = "archive" -> 1
      [] name = "default" -> 2
      [] name = "lab" -> 3
      [] name = "lab copy" -> 4
      [] OTHER -> 5

\* sorted(libraries) for a list without repeated names: the least name
\* first
RECURSIVE Sorted(_)
Sorted(names) ==
    IF names = {} THEN << >>
    ELSE LET least == CHOOSE n \in names : \A m \in names : Ord(n) <= Ord(m)
         IN  <<least>> \o Sorted(names \ {least})

\* file.stem.replace(".pubmed_citations_", ""): the path without its last
\* suffix and without any occurrence of the prefix
StemName(path) ==
    LET stem == SubSeq(path, 1, Len(path) - 1)
        IsName(tok) == tok # ".pubmed_citations_"
    IN  SelectSeq(stem, IsName)[1]

\* home.glob(".pubmed_citations_*.json"): the files that exist
Glob(files) == {p \in DOMAIN files : files[p].kind # "absent"}

\* the list in the order of the file names, "default" put last
getAvailableLibraries_Unsorted(files) ==
    LET libraries == {StemName(p) : p \in Glob(files)}
    IN  IF "default" \in libraries THEN Sorted(libraries)
        ELSE Append(Sorted(libraries), "default")

\* CitationManager.getAvailableLibraries
getAvailableLibraries(files) ==
    LET libraries == {StemName(p) : p \in Glob(files)}
    IN  IF "default" \in libraries THEN Sorted(libraries)
        ELSE Sorted(libraries \cup {"default"})

\* CitationManager.__init__ on the files a previous run left
construct(files, library_name, enabled) ==
    loadCitations([library_name |-> library_name,
                   citations |-> << >>,
                   data_file |-> DataFile(library_name),
                   enabled |-> enabled,
                   files |-> files,
                   ret |-> "None",
                   out |-> << >>,
                   trace |-> << >>])

(***************************************************************************)
(* CitationWindow (src/citationCollector.py) with its ClipboardListener    *)
(* and QuickNoteDialog, as far as the manager, the list of items, the      *)
(* count shown and the library selector depend on them.  A handler takes   *)
(* the manager st and the window w and leaves Shown(st, w).                *)
(***************************************************************************)
Shown(st, w) == [st |-> st, w |-> w]

NewLibraryItem == "+ New Library"

\* the item addCitationToList builds: its UserRole data and the summary its
\* text displays (none: the text displays the head of the citation)
ListItem(citation, index) == [index |-> index, summary |-> citation.summary]

\* CitationWindow.updateCount
updateCount(st, w) == [w EXCEPT !.count_display = Len(st.citations)]

\* CitationWindow.addCitationToList; index is None or Some(position)
addCitationToList(st, w, citation, index) ==
    LET data == IF index.isNone THEN Len(st.citations) - 1 ELSE index.val
        w1 == [w EXCEPT !.citation_list = Append(@, ListItem(citation, data))]
    IN  IF index.isNone THEN updateCount(st, w1) ELSE w1

\* `for i, citation in enumerate(citations): addCitationToList(citation, i)`
\* over the first n records
RECURSIVE AddAllToList(_, _, _)
AddAllToList(st, w, n) ==
    IF n = 0 THEN w
    ELSE addCitationToList(st, AddAllToList(st, w, n - 1), st.citations[n],
                           Some(n - 1))

\* CitationWindow.loadExistingCitations
loadExistingCitations(st, w) ==
    updateCount(st, AddAllToList(st, w, Len(st.citations)))

\* CitationWindow.refreshCitationList
refreshCitationList(st, w) ==
    LET current_row == w.current_row
        w1 == [w EXCEPT !.citation_list = << >>, !.current_row = -1]
        w2 == AddAllToList(st, w1, Len(st.citations))
        w3 == IF 0 <= current_row /\ current_row < Len(w2.citation_list)
              THEN [w2 EXCEPT !.current_row = current_row]
              ELSE w2
    IN  updateCount(st, w3)

InList(list, x) == \E i \in DOMAIN list : list[i] = x

\* CitationWindow.updateLibraryList; a selector filled anew shows its first
\* item until setCurrentText finds the active library
updateLibraryList(st, w) ==
    LET libraries == Append(getAvailableLibraries(st.files), NewLibraryItem)
    IN  [w EXCEPT !.library_combo =
                      [items |-> libraries,
                       current |-> IF InList(libraries, st.library_name)
                                   THEN st.library_name
                                   ELSE libraries[1]]]

\* CitationWindow.switchToLibrary
switchToLibrary(st, w, library_name, wo) ==
    IF library_name = st.library_name THEN Shown(st, w)
    ELSE LET st1 == switchLibrary(st, library_name, wo)
             w1  == [w EXCEPT !.citation_list = << >>, !.current_row = -1,
                              !.remove_btn = FALSE]
             w2  == loadExistingCitations(st1, w1)
         IN  Shown(st1, updateLibraryList(st1, w2))

\* chunks of word characters in the names of libraries
WordTokens == {"archive", "default", "lab", "copy"}

\* one chunk under [^\w\-_]: a chunk of word characters, a hyphen or an
\* underscore stays, every other character becomes an underscore
SanitizeToken(tok) == IF tok \in WordTokens \cup {"-", "_"} THEN tok ELSE "_"

\* re.sub(r'[^\w\-_]', '_', name.strip())
Sanitize(name) == [i \in DOMAIN Strip(name) |-> SanitizeToken(Strip(name)[i])]

\* the str of a sequence of chunks
RECURSIVE Join(_)
Join(s) == IF s = << >> THEN "" ELSE Head(s) \o Join(Tail(s))

\* CitationWindow.createNewLibrary; name and ok are what QInputDialog.getText
\* returns
createNewLibrary(st, w, name, ok, wo) ==
    IF ok /\ Strip(name) # << >>
    THEN switchToLibrary(st, w, Join(Sanitize(name)), wo)
    ELSE Shown(st, [w EXCEPT !.library_combo.current =
                                 IF InList(w.library_combo.items, st.library_name)
                                 THEN st.library_name
                                 ELSE @])

\* CitationWindow.onLibraryChanged for the item the user picked
onLibraryChanged(st, w, library_name, name, ok, wo) ==
    LET w1 == [w EXCEPT !.library_combo.current = library_name]
    IN  IF library_name = NewLibraryItem
        THEN createNewLibrary(st, w1, name, ok, wo)
        ELSE IF library_name # st.library_name
             THEN switchToLibrary(st, w1, library_name, wo)
             ELSE Shown(st, w1)

\* the ways a QuickNoteDialog closes
Closings == {"saveNote", "saveWithNote", "skipNote", "autoClose"}

\* dialog.notes when exec() returns; typed is the content of the note input
DialogNotes(how, typed) == IF how = "saveWithNote" THEN Strip(typed) ELSE << >>

\* exec() returns Accepted
Accepted(how) == how # "skipNote"

\* QuickNoteDialog.__init__: both timers run, the popup is compact and has
\* no note input; result is what exec() returns once the popup has closed
\* and how is the slot that closed it
QuickNoteDialog(citation_preview) ==
    [citation_preview |-> citation_preview, notes |-> << >>,
     is_expanded |-> FALSE, auto_close_timer |-> TRUE,
     countdown_timer |-> TRUE, remaining_seconds |-> 5, note_input |-> None,
     result |-> "Running", how |-> "none"]

\* expandForNote that leaves the auto-close timer running
expandForNote_KeepsTimer(d) ==
    IF d.is_expanded THEN d
    ELSE [d EXCEPT !.is_expanded = TRUE, !.note_input = Some(<< >>)]

\* QuickNoteDialog.expandForNote
expandForNote(d) ==
    IF d.is_expanded THEN d
    ELSE [d EXCEPT !.is_expanded = TRUE, !.auto_close_timer = FALSE,
                   !.note_input = Some(<< >>)]

\* QuickNoteDialog.updateCountdown
updateCountdown(d) ==
    LET d1 == [d EXCEPT !.remaining_seconds = @ - 1]
    IN  IF d1.remaining_seconds <= 0 THEN [d1 EXCEPT !.countdown_timer = FALSE]
        ELSE d1

\* QuickNoteDialog.saveNote, saveWithNote, skipNote and autoClose: the notes
\* are taken or not, cleanup() stops the timers, accept() or reject() ends
\* exec()
closeBy(d, how) ==
    [d EXCEPT !.notes = IF how = "saveWithNote" /\ ~d.note_input.isNone
                        THEN DialogNotes(how, d.note_input.val) ELSE @,
              !.auto_close_timer = FALSE, !.countdown_timer = FALSE,
              !.result = IF Accepted(how) THEN "Accepted" ELSE "Rejected",
              !.how = how]

\* ClipboardListener.onClipboardChanged and CitationWindow.onNewClipboardText
\* up to dialog.exec(): the text is classified and a prompt is opened
onNewClipboardText(st, w, text) ==
    LET w1 == [w EXCEPT !.last_text = text]
    IN  IF isPubmedCitation(text)
        THEN Shown(Return(st, "True"), [w1 EXCEPT !.prompts = Append(@, text)])
        ELSE Shown(Return(st, "False"), w1)

\* CitationWindow.onNewClipboardText from the return of dialog.exec() of the
\* innermost prompt
onNewClipboardTextResumes(st, w, how, typed, now, resp, wo1, wo2) ==
    LET text == w.prompts[Len(w.prompts)]
        w1   == [w EXCEPT !.prompts = SubSeq(@, 1, Len(@) - 1)]
    IN  IF ~Accepted(how) THEN Shown(st, w1)
        ELSE LET st1 == addCitation(st, text, DialogNotes(how, typed), now,
                                    resp, wo1, wo2)
                 n   == Len(st1.citations)
             IN  CASE st1.ret = "True" ->
                        Shown(st1, addCitationToList(st1, w1, st1.citations[n],
                                                     Some(n - 1)))
                   [] st1.ret = "note_appended" ->
                        Shown(st1, refreshCitationList(st1, w1))
                   [] OTHER -> Shown(st1, w1)

\* needs_refresh of CitationWindow.checkForSummaryUpdates
NeedsRefresh(st, w) ==
    \E i \in DOMAIN st.citations :
        IF i <= Len(w.citation_list)
        THEN /\ st.citations[i].summary # << >>
             /\ w.citation_list[i].summary # st.citations[i].summary
        ELSE TRUE

\* CitationWindow.checkForSummaryUpdates
checkForSummaryUpdates(st, w) ==
    IF NeedsRefresh(st, w) THEN Shown(st, refreshCitationList(st, w))
    ELSE Shown(st, w)

\* CitationWindow.onCitationSelected for a click on a row
onCitationSelected(st, w, row) ==
    LET index == w.citation_list[row + 1].index
        w1    == [w EXCEPT !.current_row = row]
    IN  IF 0 <= index /\ index < Len(st.citations)
        THEN Shown(st, [w1 EXCEPT !.remove_btn = TRUE])
        ELSE Shown(st, w1)

\* CitationWindow.removeCitation; the row that is current after takeItem is
\* not read before the next click sets it
removeSelected(st, w, wo) ==
    LET current_row == w.current_row
        \* the items after takeItem(row) and the renumbering of the data
        \* above index
        TakeItem(list, row, index) ==
            LET rest == SubSeq(list, 1, row) \o SubSeq(list, row + 2, Len(list))
            IN  [i \in DOMAIN rest |->
                    IF rest[i].index > index
                    THEN [rest[i] EXCEPT !.index = @ - 1]
                    ELSE rest[i]]
    IN  IF current_row >= 0
        THEN LET index == w.citation_list[current_row + 1].index
                 st1   == removeCitation(st, index, wo)
                 w1    == [w EXCEPT !.citation_list = TakeItem(@, current_row, index),
                                    !.current_row = -1,
                                    !.remove_btn = FALSE]
             IN  Shown(st1, updateCount(st1, w1))
        ELSE Shown(st, w)

\* CitationWindow.clearCitations; yes is the answer to the question
clearCitations(st, w, yes, wo) ==
    IF st.citations # << >> /\ yes
    THEN LET st1 == clearAll(st, wo)
             w1  == [w EXCEPT !.citation_list = << >>, !.current_row = -1,
                              !.remove_btn = FALSE]
         IN  Shown(st1, updateCount(st1, w1))
    ELSE Shown(st, w)

\* CitationWindow.__init__ around the manager st; last_text is the text the
\* clipboard holds when the listener starts
NewWindow(st, last_text) ==
    LET w == [open |-> TRUE, count_display |-> 0, citation_list |-> << >>,
              current_row |-> -1, remove_btn |-> FALSE,
              library_combo |-> [items |-> << >>, current |-> ""],
              prompts |-> << >>, last_text |-> last_text]
    IN  loadExistingCitations(st, updateLibraryList(st, w))

(***************************************************************************)
(* export.py                                                               *)
(***************************************************************************)
\* extractFirstAuthor: the capitalised word the trimmed text starts with, or
\* else the letters of its first word, in lower case
extractFirstAuthor(citation_text) ==
    LET text  == Strip(citation_text)
        first == IF text = << >> THEN "" ELSE text[1]
    IN  CASE first \in {Body, "Glia of"} -> "glia"
          [] first = "Smith JB" -> "smith"
          [] first = "def" -> "def"
          [] first \in {"pmid:", "PMID:"} -> "pmid"
          [] OTHER -> ""

\* list.sort(key=...): the indices 1..n in the order of their keys, equal
\* keys in the order of the list
RECURSIVE StableOrder(_, _)
StableOrder(n, key) ==
    IF n = 0 THEN << >>
    ELSE LET rest == StableOrder(n - 1, key)
             k    == Cardinality({i \in DOMAIN rest : key[rest[i]] <= key[n]})
         IN  SubSeq(rest, 1, k) \o <<n>> \o SubSeq(rest, k + 1, Len(rest))

\* citations_copy of exportCitations after its sort
SortedCopy(citations, options) ==
    LET n      == Len(citations)
        \* newest first: reverse=True keeps equal timestamps in list order
        byTime == [i \in 1..n |->
                      0 - (citations[i].timestamp.sec * 1000000
                             + citations[i].timestamp.usec)]
        Rank(a) == CASE a = "" -> 0 [] a = "def" -> 1 [] a = "glia" -> 2
                     [] a = "pmid" -> 3 [] OTHER -> 4
        byAuthor == [i \in 1..n |-> Rank(extractFirstAuthor(citations[i].text))]
        order  == IF options.sort_by_time THEN StableOrder(n, byTime)
                  ELSE IF options.sort_by_author THEN StableOrder(n, byAuthor)
                  ELSE [i \in 1..n |-> i]
    IN  [i \in 1..n |-> citations[order[i]]]

\* the lines exportCitations writes for the records
ExportLines(citations_copy, options) ==
    [i \in DOMAIN citations_copy |->
        LET citation == citations_copy[i]
            line == IF options.include_notes /\ citation.notes # << >>
                    THEN citation.text \o <<" [note: ">> \o citation.notes \o <<"]">>
                    ELSE citation.text
        IN  IF options.include_index THEN <<Ordinal(i), " ">> \o line
            ELSE line]

\* exportCitations sorting the list it was given
exportCitations_SortsInPlace(st, accepted, options, file_path, written) ==
    IF st.citations = << >> \/ ~accepted \/ file_path = "" THEN st
    ELSE LET citations_copy == SortedCopy(st.citations, options)
         IN  [st EXCEPT !.citations = citations_copy,
                        !.out = IF written
                                THEN ExportLines(citations_copy, options)
                                ELSE << >>]

\* exportCitations(parent, citations) on the manager's list: accepted is
\* the answer to the options dialog, file_path the answer to the file
\* dialog (a file that is no library file), written whether the file could
\* be written; out is what the file then holds below its header
exportCitations(st, accepted, options, file_path, written) ==
    IF st.citations = << >> \/ ~accepted \/ file_path = "" THEN st
    ELSE LET citations_copy == SortedCopy(st.citations, options)
         IN  [st EXCEPT !.out = IF written
                                THEN ExportLines(citations_copy, options)
                                ELSE << >>]

(***************************************************************************)
(* Environments: the texts and notes the callers offer, the clock values,  *)
(* the provider's replies and presence, the outcomes of writes, the        *)
(* library names in use.                                                   *)
(***************************************************************************)
\* files0: what a library file may hold when the first manager is
\* constructed; probes: the texts the window has classified; cap: the
\* records a library is filled with; parts: the note fragments a record is
\* given; typed: the names typed for a new library
Env(name, texts, notes, stamps, replies, writes, en, names) ==
    [name |-> name, texts |-> texts, notes |-> notes, stamps |-> stamps,
     replies |-> replies, writes |-> writes, enabled |-> en, names |-> names,
     files0 |-> {Absent}, probes |-> {PmidText}, cap |-> MaxCitations,
     parts |-> MaxNoteParts, typed |-> {<<"lab">>}]

OneStamp == {[sec |-> 1, usec |-> 0]}

OneLine == Reply(<< <<"1.", " ", "Smith: OPC">> >>)

\* items of a library file that a manager did not write
GoodItem == ToItem(Citation(PmidText, [sec |-> 1, usec |-> 0],
                            Some(<<"12345">>), << >>, << >>))
BadStampItem == [GoodItem EXCEPT !.timestamp = << >>]

\* clipboard texts put together from a head, a core, a mark and a tail:
\* blank or code-like or lower-case-marker heads, a long and a short core,
\* the indicators of the classifier, tails that end in a blank
ClipTexts ==
    LET Heads == {<< >>, <<" ">>, <<"def", " ">>, <<"pmid:", " ", "6", " ">>}
        Cores == {<<Body>>, <<"Glia of">>}
        Marks ==
            {<< >>, <<" ", "PMID:", " ", "12345">>,
             <<" ", "PMID:", " ", "12345", "6">>, <<" ", "PMID:">>,
             <<" ", "Epub">>, <<" ", "Epub", " ", "PMCID:", "6">>,
             <<" ", "doi:", " ", "10.", "6">>}
        Tails == {<< >>, <<" ", "def", " ">>}
    IN  {h \o c \o m \o t : h \in Heads, c \in Cores, m \in Marks, t \in Tails}

\* the clipboard texts with an identifier marker in either letter case
MarkedTexts ==
    {t \in ClipTexts : Contains(t, "PMID:") \/ Contains(t, "pmid:")}

\* the environment of a specification, by the specification's name
EnvOf(name) ==
    CASE name = "Spec" ->
           \* two libraries; texts that are accepted (one of them also
           \* untrimmed) and rejected, no notes, a provider that fails or
           \* answers with one line, writes that succeed
           Env("Spec", {PmidText, PaddedText, DoiText, EpubText, CodeText},
               {<< >>}, OneStamp, {Failed, OneLine}, {"ok"}, {TRUE},
               {"default", "lab"})
      [] name = "SpecNotes" ->
           \* one library; notes that are empty, blank, trimmed and
           \* untrimmed; no provider
           Env("SpecNotes", {PmidText, PaddedText, DoiText, ShortText},
               {<< >>, <<" ">>, <<"a">>, <<" ", "b", " ">>}, OneStamp,
               {Failed}, {"ok"}, {FALSE}, {"default"})
      [] name = "SpecStore" ->
           \* one library; texts enough to fill it, both shapes of
           \* timestamp, no notes, no provider
           Env("SpecStore", {PmidText, DoiText, EpubText, WeakText}, {<< >>},
               Timestamps, {Failed}, {"ok"}, {FALSE}, {"default"})
      [] name = "SpecRefresh" ->
           \* one library; a note or none, both shapes of timestamp, a
           \* provider that is absent or present and fails, answers nothing
           \* or answers with one line
           Env("SpecRefresh", {PmidText, DoiText, CodeText}, {<< >>, <<"a">>},
               Timestamps, {Failed, EmptyReply, OneLine}, {"ok"}, BOOLEAN,
               {"default"})
      [] name = "SpecFaults" ->
           \* two libraries; writes that succeed, that cannot open the
           \* file, or that fail after the file was opened
           Env("SpecFaults", {PmidText, CodeText}, {<< >>}, OneStamp,
               {Failed, OneLine}, WriteOutcomes, {TRUE}, {"default", "lab"})
      [] name = "SpecUnsynced" ->
           \* one library of up to two records, the same writes
           Env("SpecUnsynced", {PmidText, DoiText, CodeText}, {<< >>},
               OneStamp, {Failed, OneLine}, WriteOutcomes, {TRUE},
               {"default"})
      [] name = "SpecLoad" ->
           \* two libraries whose files, when the first manager starts, are
           \* absent, well-formed, broken at the first or at a later item,
           \* or not JSON
           LET BareItem == [text |-> DoiText, timestamp |-> <<1>>]
               NoTextItem == [timestamp |-> <<1>>, pmid |-> None]
           IN  [Env("SpecLoad", {PmidText, CodeText}, {<< >>}, OneStamp,
                    {Failed}, {"ok"}, {FALSE}, {"default", "lab"})
                  EXCEPT !.files0 = {Absent, Json(<<GoodItem, BareItem>>),
                                     Json(<<GoodItem, BadStampItem>>),
                                     Json(<<NoTextItem>>), Corrupt}]
      [] name = "SpecClassify" ->
           \* one library of one record; the window classifies every
           \* clipboard text and adds those with an identifier marker
           [Env("SpecClassify", MarkedTexts, {<< >>}, OneStamp, {Failed},
                {"ok"}, {FALSE}, {"default"})
              EXCEPT !.probes = ClipTexts, !.cap = 1]
      [] name = "SpecLibraries" ->
           \* three libraries, one text
           Env("SpecLibraries", {PmidText}, {<< >>}, OneStamp, {Failed},
               {"ok"}, {FALSE}, {"archive", "default", "lab"})
      [] name = "SpecRecords" ->
           \* two libraries of up to two records, with and without an
           \* identifier; a note, both shapes of timestamp, a provider that
           \* answers with one line
           [Env("SpecRecords", {PmidText, DoiText}, {<<"a">>}, Timestamps,
                {OneLine}, {"ok"}, {TRUE}, {"default", "lab"})
              EXCEPT !.cap = 2, !.parts = 2]
      [] name = "SpecSummaries" ->
           \* one library of up to two records whose texts are the batch;
           \* the provider is enabled; the refresh of an add finds it failing
           [Env("SpecSummaries", {PmidText, DoiText, EpubText}, {<< >>},
                OneStamp, {Failed}, {"ok"}, {TRUE}, {"default"})
              EXCEPT !.cap = 2]
      [] name = "SpecWindow" ->
           \* the window with one library whose file may exist; clipboard
           \* texts that are accepted and rejected; a note or none; a
           \* provider that fails or answers with one line; no name for a
           \* new library
           [Env("SpecWindow", {PmidText}, {<<" ", "a">>}, OneStamp,
                {Failed, OneLine}, {"ok"}, {TRUE}, {"default"})
              EXCEPT !.files0 = {Absent, Json(<<GoodItem>>)},
                     !.probes = {PmidText, DoiText, CodeText},
                     !.typed = {<<" ">>}]
      [] name = "SpecDialog" ->
           \* the window with one library of up to two records; clipboard
           \* texts that are accepted and rejected; typed notes that are
           \* blank and padded; no provider
           [Env("SpecDialog", {PmidText, DoiText}, {<<" ">>, <<" ", "a">>},
                OneStamp, {Failed}, {"ok"}, {FALSE}, {"default"})
              EXCEPT !.probes = {PmidText, DoiText, CodeText},
                     !.cap = 2, !.parts = 2]
      [] name = "SpecExport" ->
           \* one library of up to two records whose texts start with
           \* different words; a note or none, both shapes of timestamp, no
           \* provider
           [Env("SpecExport",
                {PmidText, DoiText,
                 <<"pmid:", " ", "6", " ", Body, " ", "PMID:", " ", "12345">>},
                {<< >>, <<"a">>}, Timestamps, {Failed}, {"ok"}, {FALSE},
                {"default"})
              EXCEPT !.cap = 2, !.parts = 1]
      [] OTHER ->
           \* SpecSelector: the window in a home directory where the file
           \* of "default" and a copy of a library file ("lab copy") may
           \* exist; the names typed for a new library are none, blank,
           \* clean, and padded with a blank inside; one clipboard text,
           \* no note, no provider, libraries of one record
           [Env("SpecSelector", {PmidText}, {<< >>}, OneStamp, {Failed},
                {"ok"}, {FALSE}, {"default", "lab copy"})
              EXCEPT !.files0 = {Absent, Json(<<GoodItem>>)},
                     !.probes = {PmidText, CodeText},
                     !.typed = {<< >>, <<" ">>, <<"lab", "_", "copy">>,
                                <<" ", "lab", " ", "copy">>},
                     !.cap = 1]

(***************************************************************************)
(* State: the fields of the one CitationManager of the process, the        *)
(* library files, and the last call made on the manager with its result.   *)
(***************************************************************************)
VARIABLES
    library_name,   \* self.library_name
    citations,      \* self.citations
    data_file,      \* self.data_file
    enabled,        \* self.openai_helper.enabled
    files,          \* path -> content of the file
    env,            \* the name of the environment the process runs in
    lastOp,         \* the last call: method, arguments, return value, trace
    held,           \* library -> the records it held when it was last active
    window          \* the CitationWindow that owns the manager, if there is one

vars ==
    <<library_name, citations, data_file, enabled, files, env, lastOp, held,
      window>>

\* what the callers and the environment can offer
E == EnvOf(env)

\* arguments of a call: the text and notes of addCitation, the index of
\* removeCitation
NoArgs == [text |-> << >>, notes |-> << >>, index |-> 0]

\* ret is the bool, None or str a call returns, out the list or dict it
\* returns
Call(op, args, st) ==
    [op |-> op, args |-> args, ret |-> st.ret, out |-> st.out,
     trace |-> st.trace]

\* the manager as the methods see it when a call starts
Self ==
    [library_name |-> library_name, citations |-> citations,
     data_file |-> data_file, enabled |-> enabled, files |-> files,
     ret |-> "None", out |-> << >>, trace |-> << >>]

\* number of note fragments in a notes value
NoteParts(notes) ==
    IF notes = << >> THEN 0
    ELSE 1 + Cardinality({i \in DOMAIN notes : notes[i] = NoteSeparator[1]})

RECURSIVE Stored(_, _)
Stored(fs, ps) ==
    IF ps = {} THEN 0
    ELSE LET p == CHOOSE q \in ps : TRUE
         IN  Len(fs[p].data) + Stored(fs, ps \ {p})

WithinBounds(st) ==
    /\ Len(st.citations) <= MaxCitations
    /\ Len(st.citations) <= E.cap
    /\ Stored(st.files, Paths) <= MaxCitations
    /\ \A i \in DOMAIN st.citations :
           /\ NoteParts(st.citations[i].notes) <= MaxNoteParts
           /\ NoteParts(st.citations[i].notes) <= E.parts

\* the manager's fields, the files and the window after a handler that
\* leaves the manager as st and the window as w
Shows(st, w, op, args) ==
    /\ WithinBounds(st)
    /\ library_name' = st.library_name
    /\ citations' = st.citations
    /\ data_file' = st.data_file
    /\ enabled' = st.enabled
    /\ files' = st.files
    /\ lastOp' = Call(op, args, st)
    /\ held' = [held EXCEPT ![st.library_name] = st.citations]
    /\ window' = w
    /\ UNCHANGED env

\* the manager's fields and the files after a call that leaves it as st
Becomes(st, op, args) == Shows(st, window, op, args)

Indices == (0 - 1)..MaxCitations

\* the state after CitationManager() in the home directory of an
\* environment e
Constructed(e) ==
    /\ env = e.name
    /\ files \in [Paths -> e.files0]
    /\ \A n \in LibraryNames \ e.names : files[DataFile(n)] = Absent
    /\ Stored(files, Paths) <= MaxCitations
    /\ \E en \in e.enabled :
         LET st == construct(files, "default", en)
         IN  /\ library_name = st.library_name
             /\ citations = st.citations
             /\ data_file = st.data_file
             /\ enabled = st.enabled
             /\ lastOp = Call("__init__", NoArgs, st)
             /\ held = [n \in LibraryNames |-> << >>]

\* a manager constructed by a process that has no window
InitIn(e) == Constructed(e) /\ window = [open |-> FALSE]

\* a new process: CitationManager(library_name) on the files left on disk
Construct ==
    \E name \in E.names, en \in E.enabled :
        Becomes(construct(files, name, en), "__init__", NoArgs)

AddCitationCall(text, notes, now, resp, wo1, wo2) ==
    Becomes(addCitation(Self, text, notes, now, resp, wo1, wo2),
            "addCitation", [NoArgs EXCEPT !.text = text, !.notes = notes])

AddCitation ==
    \E text \in E.texts, notes \in E.notes, now \in E.stamps,
       resp \in E.replies, wo1 \in E.writes, wo2 \in E.writes :
        AddCitationCall(text, notes, now, resp, wo1, wo2)

UpdateSummaries ==
    \E resp \in E.replies, wo \in E.writes :
        Becomes(updateSummaries(Self, resp, wo), "updateSummaries", NoArgs)

RemoveCitationCall(index, wo) ==
    Becomes(removeCitation(Self, index, wo), "removeCitation", [NoArgs EXCEPT !.index = index])

RemoveCitation ==
    \E index \in Indices, wo \in E.writes : RemoveCitationCall(index, wo)

ClearAll ==
    \E wo \in E.writes :
        Becomes(clearAll(Self, wo), "clearAll", NoArgs)

SaveCitations ==
    \E wo \in E.writes :
        Becomes(saveCitations(Self, wo), "saveCitations", NoArgs)

\* the window asks the classifier before it prompts for a note
IsPubmedCitation ==
    \E text \in E.probes :
        Becomes(Return(Self, IF isPubmedCitation(text) THEN "True" ELSE "False"),
                "isPubmedCitation", [NoArgs EXCEPT !.text = text])

GetAvailableLibraries ==
    Becomes([Self EXCEPT !.out = getAvailableLibraries(files)],
            "getAvailableLibraries", NoArgs)

\* the helper is called with the texts of the records and the provider
\* answers resp
GenerateCitationSummaries ==
    \E resp \in Responses :
        Becomes([Self EXCEPT !.out =
                     generateCitationSummaries(
                         enabled, [i \in DOMAIN citations |-> citations[i].text], resp)],
                "generateCitationSummaries",
                [text |-> << >>, notes |-> << >>, index |-> 0, reply |-> resp])

SwitchLibraryCall(name, wo) ==
    Becomes(switchLibrary(Self, name, wo), "switchLibrary", NoArgs)

SwitchLibrary ==
    \E name \in E.names, wo \in E.writes : SwitchLibraryCall(name, wo)

Next ==
    \/ Construct
    \/ AddCitation
    \/ UpdateSummaries
    \/ RemoveCitation
    \/ ClearAll
    \/ SaveCitations
    \/ SwitchLibrary
    \/ IsPubmedCitation
    \/ GetAvailableLibraries

\* the calls that make the batches of the provider and hand them over
NextSummaries ==
    \/ AddCitation
    \/ RemoveCitation
    \/ GenerateCitationSummaries

\* a click on the Export button: every answer to the options dialog and to
\* the file dialog
ExportCitations ==
    \E accepted \in BOOLEAN, file_path \in {"", "citations.txt"},
       written \in BOOLEAN,
       options \in [sort_by_time : BOOLEAN, sort_by_author : BOOLEAN,
                    include_index : BOOLEAN, include_notes : BOOLEAN] :
        Becomes(exportCitations(Self, accepted, options, file_path, written),
                "exportCitations",
                [text |-> << >>, notes |-> << >>, index |-> 0,
                 options |-> options])

\* the calls that fill a library and export it
NextExport ==
    \/ AddCitation
    \/ ExportCitations

(***************************************************************************)
(* The handlers of the window as the event loop runs them.                 *)
(***************************************************************************)
\* the handler's effect becomes the state
Handles(r, op, args) == Shows(r.st, r.w, op, args)

\* the clipboard changes to a text that differs from the last one; the
\* event loop of an open prompt delivers the notification as well
OnNewClipboardText ==
    \E text \in E.probes :
        /\ text # window.last_text
        /\ Len(window.prompts) < MaxPrompts
        /\ Handles(onNewClipboardText(Self, window, text),
                   "onNewClipboardText", [NoArgs EXCEPT !.text = text])

\* the innermost prompt closes and its handler goes on
OnNewClipboardTextResumes ==
    /\ window.prompts # << >>
    /\ \E how \in Closings, typed \in E.notes, now \in E.stamps,
          resp \in E.replies, wo1 \in E.writes, wo2 \in E.writes :
           Handles(onNewClipboardTextResumes(Self, window, how, typed, now,
                                             resp, wo1, wo2),
                   "addCitation",
                   [NoArgs EXCEPT !.text = window.prompts[Len(window.prompts)],
                                  !.notes = DialogNotes(how, typed)])

\* the timer of checkForSummaryUpdates fires
CheckForSummaryUpdates ==
    Handles(checkForSummaryUpdates(Self, window), "checkForSummaryUpdates",
            NoArgs)

\* an open prompt is modal: the window takes clicks when none is open
Idle == window.prompts = << >>

OnCitationSelected ==
    /\ Idle
    /\ \E row \in 0..(Len(window.citation_list) - 1) :
           Handles(onCitationSelected(Self, window, row), "onCitationSelected",
                   NoArgs)

RemoveSelected ==
    /\ Idle
    /\ window.remove_btn
    /\ \E wo \in E.writes :
           Handles(removeSelected(Self, window, wo), "removeCitation", NoArgs)

ClearCitations ==
    /\ Idle
    /\ \E yes \in BOOLEAN, wo \in E.writes :
           Handles(clearCitations(Self, window, yes, wo), "clearCitations",
                   NoArgs)

\* the user picks another item of the selector; for "+ New Library" a name
\* is asked
OnLibraryChanged ==
    /\ Idle
    /\ \E i \in DOMAIN window.library_combo.items, wo \in E.writes :
           LET item == window.library_combo.items[i]
           IN  /\ item # window.library_combo.current
               /\ IF item = NewLibraryItem
                  THEN \E name \in E.typed, ok \in BOOLEAN :
                           Handles(onLibraryChanged(Self, window, item, name, ok, wo),
                                   "createNewLibrary",
                                   [NoArgs EXCEPT !.text = name,
                                                  !.index = IF ok THEN 1 ELSE 0])
                  ELSE Handles(onLibraryChanged(Self, window, item, << >>, FALSE, wo),
                               "switchToLibrary", NoArgs)

NextWindow ==
    \/ OnNewClipboardText
    \/ OnNewClipboardTextResumes
    \/ CheckForSummaryUpdates
    \/ OnCitationSelected
    \/ RemoveSelected
    \/ ClearCitations
    \/ OnLibraryChanged

(***************************************************************************)
(* The quick-note popup of one clipboard notification, from its            *)
(* construction to the return of exec() and the rest of the handler.  The  *)
(* auto-close timer, while it runs, may fire at any later moment.          *)
(***************************************************************************)
\* the QuickNoteDialog that onNewClipboardText holds
Dialog == window.dialog[1]

\* the popup is open: none of its closing slots has run
Running == window.dialog # << >> /\ Dialog.result = "Running"

\* the clipboard changes while no handler waits for a popup and the library
\* has room for what the popup may save
ShowQuickNote ==
    /\ window.prompts = << >>
    /\ Len(citations) < E.cap
    /\ \A i \in DOMAIN citations : NoteParts(citations[i].notes) < E.parts
    /\ \E text \in E.probes :
        /\ text # window.last_text
        /\ LET r == onNewClipboardText(Self, window, text)
           IN  Shows(r.st,
                     IF r.w.prompts # << >>
                     THEN [r.w EXCEPT !.dialog = <<QuickNoteDialog(text)>>]
                     ELSE r.w,
                     "onNewClipboardText", [NoArgs EXCEPT !.text = text])

\* a click on the Note button of the compact popup
ExpandForNote ==
    /\ Running
    /\ ~Dialog.is_expanded
    /\ Shows(Self, [window EXCEPT !.dialog = <<expandForNote(Dialog)>>],
             "expandForNote", NoArgs)

\* the user edits the note input
TypeNote ==
    /\ Running
    /\ ~Dialog.note_input.isNone
    /\ \E typed \in E.notes \cup {<< >>} :
        /\ typed # Dialog.note_input.val
        /\ Shows(Self,
                 [window EXCEPT !.dialog =
                      <<[Dialog EXCEPT !.note_input = Some(typed)]>>],
                 "setPlainText", [NoArgs EXCEPT !.notes = typed])

\* the countdown timer fires
UpdateCountdown ==
    /\ Running
    /\ Dialog.countdown_timer
    /\ Shows(Self, [window EXCEPT !.dialog = <<updateCountdown(Dialog)>>],
             "updateCountdown", NoArgs)

\* the Save button or Ctrl+Return in the compact popup (saveNote), the
\* Save w/ Note button, Enter in the note input or Ctrl+Return in the
\* expanded popup (saveWithNote), the skip button or Escape (skipNote)
CloseQuickNote ==
    /\ Running
    /\ \E how \in Closings \ {"autoClose"} :
        /\ how = "saveWithNote" => Dialog.is_expanded
        /\ Shows(Self, [window EXCEPT !.dialog = <<closeBy(Dialog, how)>>],
                 how, NoArgs)

\* the auto-close timer fires
AutoClose ==
    /\ Running
    /\ Dialog.auto_close_timer
    /\ Shows(Self, [window EXCEPT !.dialog = <<closeBy(Dialog, "autoClose")>>],
             "autoClose", NoArgs)

\* exec() of the closed popup returns and onNewClipboardText goes on with
\* dialog.notes
QuickNoteReturns ==
    /\ window.prompts # << >>
    /\ ~Running
    /\ \E now \in E.stamps, resp \in E.replies, wo1 \in E.writes,
          wo2 \in E.writes :
        Handles(onNewClipboardTextResumes(Self, window, Dialog.how,
                                          Dialog.note_input.val, now, resp,
                                          wo1, wo2),
                "addCitation",
                [NoArgs EXCEPT !.text = Dialog.citation_preview,
                               !.notes = Dialog.notes])

NextDialog ==
    \/ ShowQuickNote
    \/ ExpandForNote
    \/ TypeNote
    \/ UpdateCountdown
    \/ CloseQuickNote
    \/ AutoClose
    \/ QuickNoteReturns

(***************************************************************************)
(* Specifications: one per environment.                                    *)
(***************************************************************************)
Init == InitIn(EnvOf("Spec"))

Spec == Init /\ [][Next]_vars

SpecNotes == InitIn(EnvOf("SpecNotes")) /\ [][Next]_vars

SpecStore == InitIn(EnvOf("SpecStore")) /\ [][Next]_vars

SpecRefresh == InitIn(EnvOf("SpecRefresh")) /\ [][Next]_vars

SpecFaults == InitIn(EnvOf("SpecFaults")) /\ [][Next]_vars

SpecUnsynced == InitIn(EnvOf("SpecUnsynced")) /\ [][Next]_vars

SpecLoad == InitIn(EnvOf("SpecLoad")) /\ [][Next]_vars

SpecClassify == InitIn(EnvOf("SpecClassify")) /\ [][Next]_vars

SpecLibraries == InitIn(EnvOf("SpecLibraries")) /\ [][Next]_vars

SpecRecords == InitIn(EnvOf("SpecRecords")) /\ [][Next]_vars

SpecSummaries == InitIn(EnvOf("SpecSummaries")) /\ [][NextSummaries]_vars

\* CitationWindow() in the home directory of an environment e, the
\* clipboard holding one of its texts or none
InitWindowIn(e) ==
    /\ Constructed(e)
    /\ \E last_text \in e.probes \cup {<< >>} :
           window = NewWindow(Self, last_text)

SpecExport == InitIn(EnvOf("SpecExport")) /\ [][NextExport]_vars

SpecWindow == InitWindowIn(EnvOf("SpecWindow")) /\ [][NextWindow]_vars

SpecSelector == InitWindowIn(EnvOf("SpecSelector")) /\ [][NextWindow]_vars

\* the window before the first popup; the event loop delivers the timeout
\* of a running auto-close timer
InitDialog ==
    /\ Constructed(EnvOf("SpecDialog"))
    /\ window = [dialog |-> << >>] @@ NewWindow(Self, << >>)

SpecDialog == InitDialog /\ [][NextDialog]_vars /\ WF_vars(AutoClose)


TypeOK ==
    /\ library_name \in LibraryNames
    /\ data_file = DataFile(library_name)
    /\ Len(citations) <= MaxCitations
    /\ enabled \in BOOLEAN

(***************************************************************************)
(* Properties.                                                             *)
(***************************************************************************)
Mutating == {"addCitation", "removeCitation", "clearAll", "updateSummaries"}

HasEvent(trace, ev) == \E i \in DOMAIN trace : trace[i].ev = ev

OtherLibraries == LibraryNames \ {library_name}

\* C1: starting without library files, after any sequence of addCitation,
\* removeCitation, clearAll, updateSummaries and switchLibrary calls (and
\* restarts), no two records of the in-memory list have the same trimmed text.
C1_NoDuplicateText ==
    \A i \in DOMAIN citations : \A j \in DOMAIN citations :
        i # j => Strip(citations[i].text) # Strip(citations[j].text)

\* the untrimmed form of a stored text was offered again and not added, in
\* a library of two records
C1_Witness ==
    /\ lastOp.op = "addCitation"
    /\ lastOp.args.text = PaddedText
    /\ lastOp.ret = "False"
    /\ Len(citations) = 2
    /\ \E i \in DOMAIN citations : citations[i].text = PmidText

\* C4: addCitation with a text the classifier rejects returns False
\* (Rejected) and leaves the in-memory list, the active library's file, the
\* active library name and every other file as they were, and makes no call:
\* no save, no summary refresh, no provider request.
C4_RejectedNoChange ==
    [][ (lastOp'.op = "addCitation" /\ ~isPubmedCitation(lastOp'.args.text))
          => /\ lastOp'.ret = "False"
             /\ lastOp'.trace = << >>
             /\ UNCHANGED <<citations, files, library_name, data_file>> ]_vars

\* a rejected text was offered to a library that holds records and has
\* another library's file beside it
C4_Witness ==
    /\ lastOp.op = "addCitation"
    /\ lastOp.args.text = CodeText
    /\ lastOp.ret = "False"
    /\ citations # << >>
    /\ \E n \in OtherLibraries : files[DataFile(n)].data # << >>

\* positions of the records whose text is the trimmed form of text
RecordsOf(cits, text) == {i \in DOMAIN cits : cits[i].text = Strip(text)}

\* this step is addCitation called again with the text of the call before,
\* which had returned True (Added)
AgainAfterAdded ==
    /\ lastOp.op = "addCitation"
    /\ lastOp.ret = "True"
    /\ lastOp'.op = "addCitation"
    /\ lastOp'.args.text = lastOp.args.text

\* C2: for an accepted text that the library does not hold, addCitation
\* returns True (Added); the same text offered again at once with an empty
\* note returns False (DuplicateIgnored) and leaves the records (count and
\* fields) and the files as the first call left them.
C2_AddedThenIgnored ==
    [][ /\ ( /\ lastOp'.op = "addCitation"
             /\ isPubmedCitation(lastOp'.args.text)
             /\ RecordsOf(citations, lastOp'.args.text) = {} )
          => lastOp'.ret = "True"
        /\ (AgainAfterAdded /\ lastOp'.args.notes = << >>)
          => /\ lastOp'.ret = "False"
             /\ UNCHANGED <<citations, files>> ]_vars

\* the text of the last record, added with a note, was offered again with an
\* empty note and turned down
C2_Witness ==
    /\ lastOp.op = "addCitation"
    /\ lastOp.args.notes = << >>
    /\ lastOp.ret = "False"
    /\ isPubmedCitation(lastOp.args.text)
    /\ citations # << >>
    /\ citations[Len(citations)].text = Strip(lastOp.args.text)
    /\ citations[Len(citations)].notes # << >>

\* C3 as stated: addCitation(text, a) then addCitation(text, b) with a and b
\* non-empty returns True then "note_appended", leaves one record for the
\* text, and its notes are a, the separator, b.
C3_NotesAreAThenB ==
    [][ ( /\ AgainAfterAdded
          /\ lastOp.args.notes # << >>
          /\ lastOp'.args.notes # << >> )
          => /\ lastOp'.ret = "note_appended"
             /\ Cardinality(RecordsOf(citations', lastOp'.args.text)) = 1
             /\ \A i \in RecordsOf(citations', lastOp'.args.text) :
                    citations'[i].notes =
                        lastOp.args.notes \o <<"\n---\n">> \o lastOp'.args.notes
      ]_vars

\* C3 amended: addCitation(text, a) then addCitation(text, b), with a
\* non-empty and b non-empty after trimming, returns True then
\* "note_appended", leaves one record for the text, and its notes are a, the
\* separator, then b trimmed.
C3_NotesAreAThenTrimmedB ==
    [][ ( /\ AgainAfterAdded
          /\ lastOp.args.notes # << >>
          /\ Strip(lastOp'.args.notes) # << >> )
          => /\ lastOp'.ret = "note_appended"
             /\ Cardinality(RecordsOf(citations', lastOp'.args.text)) = 1
             /\ \A i \in RecordsOf(citations', lastOp'.args.text) :
                    citations'[i].notes =
                        lastOp.args.notes \o <<"\n---\n">>
                          \o Strip(lastOp'.args.notes)
      ]_vars

\* an untrimmed note was appended to a record that had been added with a note
C3_Witness ==
    /\ lastOp.op = "addCitation"
    /\ lastOp.ret = "note_appended"
    /\ lastOp.args.notes = <<" ", "b", " ">>
    /\ \E i \in RecordsOf(citations, lastOp.args.text) :
           citations[i].notes = <<"a", "\n---\n", "b">>

\* the last thing the call before this step did was to save the active library
SavedLast ==
    /\ lastOp.trace # << >>
    /\ lastOp.trace[Len(lastOp.trace)] = Event("save", data_file)

\* C5: when the records have just been saved and a fresh manager is then
\* constructed on the same library, it holds the same records in the same
\* order, each with equal text, timestamp, pmid (None included), notes and
\* summary.
C5_SaveLoadRoundTrip ==
    [][ (SavedLast /\ lastOp'.op = "__init__" /\ library_name' = library_name)
          => citations' = citations ]_vars

\* a fresh manager loaded two records: one with microseconds, a pmid, a note
\* and a summary, one with no microseconds and no pmid
C5_Witness ==
    /\ lastOp.op = "__init__"
    /\ Len(citations) = 2
    /\ \E i \in DOMAIN citations :
           /\ citations[i].timestamp.usec # 0
           /\ ~citations[i].pmid.isNone
           /\ citations[i].notes # << >>
           /\ citations[i].summary # << >>
    /\ \E i \in DOMAIN citations :
           citations[i].timestamp.usec = 0 /\ citations[i].pmid.isNone

\* C6: removeCitation(i) with 0 <= i < n leaves the n-1 other records in
\* their order, the records after position i one position lower, and the
\* file of the active library holds that result.
C6_RemoveKeepsOthersInOrder ==
    [][ ( /\ lastOp'.op = "removeCitation"
          /\ 0 <= lastOp'.args.index
          /\ lastOp'.args.index < Len(citations) )
          => /\ Len(citations') = Len(citations) - 1
             /\ \A k \in 1..(Len(citations) - 1) :
                    citations'[k] = IF k <= lastOp'.args.index
                                    THEN citations[k]
                                    ELSE citations[k + 1]
             /\ files'[data_file].kind = "json"
             /\ Deserialize(files'[data_file].data) = citations' ]_vars

\* the middle one of three records was removed, and the two around it are
\* left in memory and in the file
C6_Witness ==
    /\ lastOp.op = "removeCitation"
    /\ lastOp.args.index = 1
    /\ HasEvent(lastOp.trace, "save")
    /\ Len(citations) = 2
    /\ Len(files[data_file].data) = 2

\* C7: removeCitation(index) with index < 0 or index >= the record count
\* returns (None) without a save and leaves the in-memory list and the files
\* as they were.
C7_RemoveOutOfRangeNoOp ==
    [][ ( /\ lastOp'.op = "removeCitation"
          /\ \/ lastOp'.args.index < 0
             \/ lastOp'.args.index >= Len(citations) )
          => /\ lastOp'.ret = "None"
             /\ lastOp'.trace = << >>
             /\ UNCHANGED <<citations, files>> ]_vars

\* removeCitation(-1) was called on a list of three records, which still
\* has three
C7_Witness ==
    /\ lastOp.op = "removeCitation"
    /\ lastOp.args.index = 0 - 1
    /\ Len(citations) = 3

\* C8: addCitation, removeCitation, clearAll and updateSummaries leave the
\* file of every library other than the active one as it was, and after
\* switchLibrary the in-memory list is what the library switched to held
\* when it was last active.
C8_LibrariesIsolated ==
    [][ /\ lastOp'.op \in Mutating
          => \A n \in OtherLibraries : files'[DataFile(n)] = files[DataFile(n)]
        /\ lastOp'.op = "switchLibrary"
          => citations' = held[library_name'] ]_vars

\* the manager switched to a library and got its record back, while the
\* other library's file holds a different record
C8_Witness ==
    /\ lastOp.op = "switchLibrary"
    /\ Len(citations) = 1
    /\ \E n \in OtherLibraries :
           /\ Len(files[DataFile(n)].data) = 1
           /\ files[DataFile(n)].data # Serialize(citations)

\* this step completes a mutation: an add that returned True or
\* "note_appended", a removal at a valid index, clearAll, or a summary update
\* (provider enabled, records present)
CompletesMutation ==
    \/ lastOp'.op = "addCitation" /\ lastOp'.ret \in {"True", "note_appended"}
    \/ /\ lastOp'.op = "removeCitation"
       /\ 0 <= lastOp'.args.index
       /\ lastOp'.args.index < Len(citations)
    \/ lastOp'.op = "clearAll"
    \/ lastOp'.op = "updateSummaries" /\ enabled /\ citations # << >>

\* C9: with writes that succeed, after every completed addCitation,
\* removeCitation, clearAll and summary update the file of the active library
\* holds exactly the in-memory records, in order.
C9_SavedAfterEveryMutation ==
    [][ CompletesMutation
          => files'[data_file'] = Json(Serialize(citations')) ]_vars

\* an add returned True after its summary refresh gave the new record a
\* summary
C9_Witness ==
    /\ lastOp.op = "addCitation"
    /\ lastOp.ret = "True"
    /\ HasEvent(lastOp.trace, "request")
    /\ citations[Len(citations)].summary # << >>
    /\ citations[Len(citations)].text = Strip(lastOp.args.text)

\* C10: switchLibrary(name) saves the records in memory to the file of the
\* outgoing library, then loads the file of name: afterwards the in-memory
\* list is that file's records, or empty when name has no file.  No step
\* changes a file other than that of the library active when the step began,
\* and what it writes there is that library's records.
C10_SwitchSavesThenLoads ==
    [][ /\ lastOp'.op = "switchLibrary"
          => /\ lastOp'.trace = << Event("save", DataFile(library_name)),
                                   Event("load", DataFile(library_name')) >>
             /\ citations' = IF files'[data_file'].kind = "json"
                             THEN Deserialize(files'[data_file'].data)
                             ELSE << >>
        /\ \A p \in Paths :
             files'[p] # files[p]
               => /\ p = DataFile(library_name)
                  /\ files'[p] = Json(Serialize(IF lastOp'.op = "switchLibrary"
                                                THEN citations
                                                ELSE citations')) ]_vars

\* the manager switched to a library without a file and is empty, and the
\* outgoing library's record is in the outgoing library's file
C10_Witness ==
    /\ lastOp.op = "switchLibrary"
    /\ files[data_file].kind = "absent"
    /\ citations = << >>
    /\ \E n \in OtherLibraries :
           /\ Len(files[DataFile(n)].data) = 1
           /\ held[n] = Deserialize(files[DataFile(n)].data)

\* every text of before is the text of a record of after
Kept(before, after) ==
    \A i \in DOMAIN before : \E j \in DOMAIN after :
        after[j].text = before[i].text

\* the texts of the records a file holds
FileTexts(f) ==
    IF f.kind = "json" THEN {f.data[i].text : i \in DOMAIN f.data} ELSE {}

\* the records of the active library that the step may destroy: all of
\* them for clearAll, the one at the index for removeCitation
Spared ==
    CASE lastOp'.op = "clearAll" -> << >>
      [] /\ lastOp'.op = "removeCitation"
         /\ 0 <= lastOp'.args.index
         /\ lastOp'.args.index < Len(citations) ->
             DeleteAt(citations, lastOp'.args.index)
      [] OTHER -> citations

\* C11: a record of a library stays in it through every operation of the
\* manager but removeCitation at its position and clearAll: in memory while
\* the library stays active and when the manager switches back to it, and
\* in the library's file once it is there.
C11_RecordsStay ==
    [][ lastOp'.op # "__init__"
          => /\ library_name' = library_name => Kept(Spared, citations')
             /\ lastOp'.op = "switchLibrary"
                   => Kept(held[library_name'], citations')
             /\ \A n \in LibraryNames \ {library_name} :
                    FileTexts(files[DataFile(n)])
                        \subseteq FileTexts(files'[DataFile(n)])
             /\ FileTexts(files[data_file])
                   \cap {Spared[i].text : i \in DOMAIN Spared}
                        \subseteq FileTexts(files'[data_file]) ]_vars

\* the file the manager has just loaded does not parse as a list of records
Broken(f) ==
    \/ f.kind = "corrupt"
    \/ f.kind = "json" /\ \E i \in DOMAIN f.data : ~Parses(f.data[i])

\* C16: when the file that __init__ or switchLibrary loads is not JSON, or
\* holds a record without text or timestamp or with a malformed timestamp,
\* the call returns and the in-memory list is empty: the records before the
\* bad one are not kept.
C16_BrokenFileLoadsEmpty ==
    [][ (lastOp'.op \in {"__init__", "switchLibrary"}
           /\ Broken(files'[data_file']))
          => /\ citations' = << >>
             /\ lastOp'.ret = "None" ]_vars

\* switchLibrary met a file whose second record has a malformed timestamp
C16_Witness ==
    /\ lastOp.op = "switchLibrary"
    /\ files[data_file] = Json(<<GoodItem, BadStampItem>>)
    /\ citations = << >>

\* positions of the save attempts in the trace of a call
SaveEvents(trace) ==
    {i \in DOMAIN trace : trace[i].ev \in {"save", "save_error"}}

\* the call saved, and its last save succeeded
LastSaveSucceeded(trace) ==
    /\ SaveEvents(trace) # {}
    /\ \E i \in SaveEvents(trace) :
           /\ trace[i].ev = "save"
           /\ \A k \in SaveEvents(trace) : k <= i

C13_RefreshIsDeferred ==
    [][ (lastOp'.op = "addCitation" /\ lastOp'.ret = "True")
          => ~HasEvent(lastOp'.trace, "request") ]_vars

\* the texts of the records, the batch of a summary refresh
Texts(cits) == [i \in DOMAIN cits |-> cits[i].text]

\* C14: with the provider disabled, updateSummaries returns and changes
\* nothing, addCitation leaves the summary of every record it found as it
\* was and the record it adds without a summary, and
\* generateCitationSummaries gives the empty mapping for every batch and
\* reply.
C14_DisabledProviderNoOp ==
    [][ (~enabled /\ lastOp'.op \in {"updateSummaries", "addCitation"})
          => /\ lastOp'.op = "updateSummaries"
                   => lastOp'.ret = "None" /\ UNCHANGED <<citations, files>>
             /\ \A i \in DOMAIN citations :
                    /\ i \in DOMAIN citations'
                    /\ citations'[i].summary = citations[i].summary
             /\ \A i \in DOMAIN citations' \ DOMAIN citations :
                    citations'[i].summary = << >>
             /\ ~HasEvent(lastOp'.trace, "request")
             /\ \A resp \in Responses :
                    generateCitationSummaries(enabled', Texts(citations'), resp)
                        = EmptyDict ]_vars

\* without a provider a record was added next to one that has a summary
C14_Witness ==
    /\ ~enabled
    /\ lastOp.op = "addCitation"
    /\ lastOp.ret = "True"
    /\ Len(citations) = 2
    /\ citations[1].summary # << >>
    /\ citations[2].summary = << >>

\* replies of a provider call that failed
Failures == {Failed, EmptyReply}

\* C15: when the call of the enabled provider raises or answers nothing,
\* generateCitationSummaries gives the empty mapping, and the addCitation
\* that asked returns True (Added) with the new record in memory and in the
\* file and every record that was there unchanged, summary included.
C15_ProviderFailureAbsorbed ==
    [][ (enabled /\ lastOp'.op = "addCitation" /\ lastOp'.ret = "True")
          => \A now \in E.stamps, resp \in Failures :
                AddCitationCall(lastOp'.args.text, lastOp'.args.notes, now,
                                resp, "ok", "ok")
                  => /\ generateCitationSummaries(enabled, Texts(citations'),
                                                   resp) = EmptyDict
                     /\ Len(citations') = Len(citations) + 1
                     /\ citations'[Len(citations')].text =
                            Strip(lastOp'.args.text)
                     /\ \A i \in DOMAIN citations :
                            citations'[i] = citations[i]
                     /\ files'[data_file'] = Json(Serialize(citations')) ]_vars

\* the provider call of an add raised; the record before it keeps its
\* summary and the new record is in the file
C15_Witness ==
    /\ enabled
    /\ lastOp.op = "addCitation"
    /\ lastOp.ret = "True"
    /\ HasEvent(lastOp.trace, "request_failed")
    /\ Len(citations) = 2
    /\ citations[1].summary # << >>
    /\ Len(files[data_file].data) = 2

\* some denylisted fragment occurs in text
HasCodeFragment(text) == \E ind \in code_indicators : ContainsSeq(text, ind)

\* the strong count is at least 1 or the weak count at least 2
EnoughIndicators(text) ==
    strong_indicators(Strip(text)) >= 1 \/ weak_indicators(Strip(text)) >= 2

Bool(b) == IF b THEN "True" ELSE "False"

\* C18 as stated: the classifier answers false for a text whose trimmed
\* length is below 20 and for a text that contains a denylisted fragment,
\* and for any other text true exactly when the indicators suffice.
C18_ClassifierDecision ==
    lastOp.op = "isPubmedCitation"
      => lastOp.ret =
           Bool(/\ StrLen(Strip(lastOp.args.text)) >= 20
                /\ ~HasCodeFragment(lastOp.args.text)
                /\ EnoughIndicators(lastOp.args.text))

\* C18 amended: the classifier answers false for a text whose trimmed
\* length is below 20 and for a text whose trimmed form contains a
\* denylisted fragment, and for any other text true exactly when the
\* indicators suffice.
C18_ClassifierDecisionTrimmed ==
    lastOp.op = "isPubmedCitation"
      => LET text == lastOp.args.text
         IN  /\ StrLen(Strip(text)) < 20 => lastOp.ret = "False"
             /\ HasCodeFragment(Strip(text)) => lastOp.ret = "False"
             /\ (StrLen(Strip(text)) >= 20 /\ ~HasCodeFragment(Strip(text)))
                   => lastOp.ret = Bool(EnoughIndicators(text))

\* a text of 19 characters between blanks was turned down, identifier and
\* all
C18_Witness ==
    /\ lastOp.op = "isPubmedCitation"
    /\ lastOp.args.text = <<" ", "Glia of", " ", "PMID:", " ", "12345">>
    /\ lastOp.ret = "False"

\* positions where `PMID: 12345` starts in text
At12345(text) ==
    {i \in 1..(Len(text) - 2) :
        SubSeq(text, i, i + 2) = <<"PMID:", " ", "12345">>}

\* the step adds a record for the text of the call
AddsRecord ==
    /\ lastOp'.ret = "True"
    /\ Len(citations') = Len(citations) + 1
    /\ citations'[Len(citations')].text = Strip(lastOp'.args.text)

\* C19 as stated: every text that contains `PMID: 12345` is classified a
\* citation, and the identifier extracted for it (the pmid of the record
\* added for it) is "12345".
C19_Pmid12345 ==
    [][ /\ (lastOp'.op = "isPubmedCitation"
               /\ At12345(lastOp'.args.text) # {})
              => lastOp'.ret = "True"
        /\ (lastOp'.op = "addCitation" /\ At12345(lastOp'.args.text) # {}
               /\ RecordsOf(citations, lastOp'.args.text) = {})
              => /\ AddsRecord
                 /\ citations'[Len(citations')].pmid = Some(<<"12345">>)
      ]_vars

\* text is long enough trimmed and free of denylisted fragments, and its
\* first identifier marker (either letter case, digits behind it) is
\* `PMID: 12345` with no digit after it
Plain12345(text) ==
    /\ StrLen(Strip(text)) >= 20
    /\ ~HasCodeFragment(Strip(text))
    /\ \E i \in At12345(text) :
           /\ ~IsDigits(text, i + 3)
           /\ \A k \in 1..(i - 1) :
                  ~(text[k] \in {"PMID:", "pmid:"}
                      /\ IsDigits(text, SkipWs(text, k + 1)))

\* C19 amended: every such text is classified a citation, and the
\* identifier extracted for it is "12345".
C19_PlainPmid12345 ==
    [][ /\ (lastOp'.op = "isPubmedCitation" /\ Plain12345(lastOp'.args.text))
              => lastOp'.ret = "True"
        /\ (lastOp'.op = "addCitation" /\ Plain12345(lastOp'.args.text)
               /\ RecordsOf(citations, lastOp'.args.text) = {})
              => /\ AddsRecord
                 /\ citations'[Len(citations')].pmid = Some(<<"12345">>)
      ]_vars

\* a text with `PMID: 12345` in the middle was added with that identifier
C19_Witness ==
    /\ lastOp.op = "addCitation"
    /\ lastOp.ret = "True"
    /\ lastOp.args.text = <<" ", Body, " ", "PMID:", " ", "12345", " ", "def", " ">>
    /\ citations[Len(citations)].pmid = Some(<<"12345">>)

\* the names in out ascend strictly
Ascending(out) ==
    \A i \in DOMAIN out : \A j \in DOMAIN out : i < j => Ord(out[i]) < Ord(out[j])

\* C20: getAvailableLibraries returns, ascending and without repetition,
\* the names of the libraries whose file exists and "default".
C20_ListsLibraries ==
    lastOp.op = "getAvailableLibraries"
      => /\ Ascending(lastOp.out)
         /\ {lastOp.out[i] : i \in DOMAIN lastOp.out} =
              {n \in LibraryNames : files[DataFile(n)].kind # "absent"}
                \cup {"default"}

\* the list was asked for when the libraries before and after "default"
\* had a file and "default" had none
C20_Witness ==
    /\ lastOp.op = "getAvailableLibraries"
    /\ lastOp.out = <<"archive", "default", "lab">>
    /\ files[DataFile("default")].kind = "absent"

\* the library names chunk by chunk
NameSpellings ==
    {<<"archive">>, <<"default">>, <<"lab">>, <<"lab", " ", "copy">>,
     <<"lab", "_", "copy">>}

Spell(name) == CHOOSE sp \in NameSpellings : Join(sp) = name

\* only word characters, hyphens and underscores
OnlyNameChars(sp) == \A i \in DOMAIN sp : sp[i] \in WordTokens \cup {"-", "_"}

\* C21: the name of the active library (the name in the data file's name)
\* consists only of word characters, hyphens and underscores, and a name
\* with other characters that is typed and confirmed for a new library
\* becomes active in its sanitized form: it is never rejected.
C21_NameIsSanitized ==
    [][/\ OnlyNameChars(Spell(library_name'))
       /\ data_file' = DataFile(library_name')
       /\ (/\ lastOp'.op = "createNewLibrary"
           /\ lastOp'.args.index = 1
           /\ ~OnlyNameChars(lastOp'.args.text))
          => /\ library_name' = Join(Sanitize(lastOp'.args.text))
             /\ OnlyNameChars(Sanitize(lastOp'.args.text))]_vars

\* records of the same text have the same timestamp and identifier
SameBirth(before, after) ==
    \A i \in DOMAIN before, j \in DOMAIN after :
        before[i].text = after[j].text
        => /\ after[j].timestamp = before[i].timestamp
           /\ after[j].pmid = before[i].pmid

\* C22: a record keeps its timestamp and its identifier as long as it
\* exists: across every call that leaves the library active (note-append,
\* summary update, removal of other records, save) the records in memory
\* have the values they had, and when a library becomes active (again) the
\* records loaded have the values they had when it was last active.
C22_BirthIsKept ==
    [][/\ library_name' = library_name => SameBirth(citations, citations')
       /\ SameBirth(held[library_name'], citations')]_vars

\* a library is active again with a record that has an identifier, a
\* timestamp with microseconds, a note and a summary, while the other
\* library holds records too
C22_Witness ==
    /\ lastOp.op = "switchLibrary"
    /\ library_name = "lab"
    /\ held["default"] # << >>
    /\ \E i \in DOMAIN citations :
           /\ citations[i].timestamp.usec # 0
           /\ citations[i].pmid # None
           /\ citations[i].notes # << >>
           /\ citations[i].summary # << >>
           /\ \E j \in DOMAIN files[data_file].data :
                  files[data_file].data[j] = ToItem(citations[i])

IsPrefix(s, t) == Len(s) <= Len(t) /\ SubSeq(t, 1, Len(s)) = s

\* the notes of every record of before are a prefix of the notes of the
\* record of the same text in after
NotesGrow(before, after) ==
    \A i \in DOMAIN before, j \in DOMAIN after :
        before[i].text = after[j].text => IsPrefix(before[i].notes, after[j].notes)

\* where a fragment of the notes starts or ends: no blank and no separator
Edge(tok) == tok \notin Whitespace \cup {NoteSeparator[1]}

\* empty, or non-empty trimmed fragments joined by the separator
Fragments(notes) ==
    \/ notes = << >>
    \/ /\ Edge(notes[1])
       /\ Edge(notes[Len(notes)])
       /\ \A i \in DOMAIN notes :
              notes[i] = NoteSeparator[1] => Edge(notes[i - 1]) /\ Edge(notes[i + 1])

\* C23: across every operation the notes of a record before the operation
\* are a prefix of its notes after it, and the notes of every record are
\* empty or one or more non-empty trimmed fragments joined by the separator.
C23_NotesGrowByAppending ==
    [][/\ library_name' = library_name => NotesGrow(citations, citations')
       /\ NotesGrow(held[library_name'], citations')
       /\ \A i \in DOMAIN citations' : Fragments(citations'[i].notes)]_vars

\* C24: a clipboard notification is handled to its end before the handling
\* of the next one begins: no handler starts while an earlier one waits at
\* its note prompt, and addCitation is called for a notification only when
\* no other notification waits at a prompt.
C24_NotificationsInTurn ==
    [][/\ lastOp'.op = "onNewClipboardText" => window.prompts = << >>
       /\ lastOp'.op = "addCitation" => Len(window.prompts) = 1]_vars

\* the number of events ev in a trace
CountEvents(trace, ev) == Cardinality({i \in DOMAIN trace : trace[i].ev = ev})

\* after is before with the summaries of the mapping M written on the
\* records whose text is a key of M, and nothing else changed
Summarized(before, after, M) ==
    /\ Len(after) = Len(before)
    /\ \A i \in DOMAIN before :
           /\ after[i].text = before[i].text
           /\ after[i].notes = before[i].notes
           /\ after[i].timestamp = before[i].timestamp
           /\ after[i].pmid = before[i].pmid
           /\ after[i].summary =
                  IF \E kv \in M : kv.key = before[i].text
                  THEN (CHOOSE kv \in M : kv.key = before[i].text).val
                  ELSE before[i].summary

Label(line, i) ==
    IF Strip(line) # << >> /\ Strip(line)[1] = Ordinal(i)
    THEN Strip(Tail(Strip(line)))
    ELSE Strip(line)

Min(a, b) == IF a <= b THEN a ELSE b

\* a mapping: one value for a key
IsMapping(M) == \A kv1 \in M, kv2 \in M : kv1.key = kv2.key => kv1 = kv2

\* the positions of the batch that get a label: lines 1..min(L, n)
Positions(lines, batch) == 1..Min(Len(lines), Len(batch))

\* C26: for a batch of n texts and a response of L lines,
\* generateCitationSummaries returns a mapping whose keys are members of
\* the batch and in which, for every i <= min(L, n), the i-th input has the
\* i-th line as its label, a leading "i." stripped; more or fewer lines
\* than inputs make no error.
C26_LabelsInOrder ==
    (lastOp.op = "generateCitationSummaries" /\ lastOp.args.reply.ok)
      => LET lines == lastOp.args.reply.lines
             batch == Texts(citations)
         IN  /\ IsMapping(lastOp.out)
             /\ \A kv \in lastOp.out : \E i \in DOMAIN batch : batch[i] = kv.key
             /\ \A i \in Positions(lines, batch) :
                    [key |-> batch[i], val |-> Label(lines[i], i)] \in lastOp.out

\* C26 as the code has it: a line that is blank gives its input no label.
C26_NonBlankLabelsInOrder ==
    (lastOp.op = "generateCitationSummaries" /\ lastOp.args.reply.ok)
      => LET lines == lastOp.args.reply.lines
             batch == Texts(citations)
             labelled == {i \in Positions(lines, batch) : Strip(lines[i]) # << >>}
         IN  /\ IsMapping(lastOp.out)
             /\ \A kv \in lastOp.out : \E i \in labelled : batch[i] = kv.key
             /\ \A i \in labelled :
                    [key |-> batch[i], val |-> Label(lines[i], i)] \in lastOp.out

\* a response of two lines for a batch of one text: the first line, its
\* numbering removed, is the label of the text
C26_Witness ==
    /\ lastOp.op = "generateCitationSummaries"
    /\ Len(citations) = 1
    /\ Len(lastOp.args.reply.lines) = 2
    /\ lastOp.args.reply.lines[1][1] = "1."
    /\ lastOp.out = {[key |-> citations[1].text, val |-> <<"Smith: OPC">>]}

\* the digits that follow the first marker "PMID:" that has digits
DigitsAfterMarker(text) ==
    LET Marked(i) == text[i] = "PMID:" /\ IsDigits(text, SkipWs(text, i + 1))
        i == CHOOSE k \in DOMAIN text :
                 Marked(k) /\ \A m \in 1..(k - 1) : ~Marked(m)
    IN  DigitRun(text, SkipWs(text, i + 1))

\* C27: the identifier of a record that addCitation creates is the digit
\* sequence following the marker when the classifier's signal has_pmid
\* holds for the text, and absent when it does not.
C27_IdentifierIffSignal ==
    [][ (lastOp'.op = "addCitation" /\ lastOp'.ret = "True")
          => LET text == Strip(lastOp'.args.text)
                 new  == citations'[Len(citations')]
             IN  new.pmid = IF has_pmid(text)
                            THEN Some(DigitsAfterMarker(text))
                            ELSE None ]_vars

\* the handlers of the window that end with this step
Finishing ==
    {"addCitation", "removeCitation", "clearCitations", "switchToLibrary",
     "createNewLibrary"}

C30_ActiveIsListed ==
    \E i \in DOMAIN getAvailableLibraries(files) :
        getAvailableLibraries(files)[i] = library_name

\* one of the closing slots of the popup runs with this step
Closing == Running /\ ~Running'

\* the handler of the closed popup goes on with this step
Resuming == window.prompts # << >> /\ window'.prompts = << >>

\* C31: when the popup is accepted after it was expanded and a note was
\* typed, whatever the accepting action, dialog.notes is the trimmed typed
\* text and addCitation is given it; when the popup is rejected, notes is
\* empty.
C31_TypedNoteIsKept ==
    [][ /\ Closing =>
             /\ ( /\ Dialog.is_expanded
                  /\ Strip(Dialog.note_input.val) # << >>
                  /\ Dialog'.result = "Accepted" )
                  => Dialog'.notes = Strip(Dialog.note_input.val)
             /\ Dialog'.result = "Rejected" => Dialog'.notes = << >>
        /\ (Resuming /\ Dialog.result = "Accepted")
             => lastOp'.args.notes = Dialog.notes ]_vars

\* the popup is open and was not expanded
Compact == Running /\ ~Dialog.is_expanded

\* the text of the popup is a record of the active library
Saved(text, records) ==
    \E i \in DOMAIN records : records[i].text = Strip(text)

\* C32: a popup that is neither expanded nor clicked closes by itself in
\* the end, with result Accepted and an empty note, and its citation is
\* saved; a popup that was expanded never closes by the timeout, only by a
\* save or skip action.
C32_ClosesByItselfUnlessExpanded ==
    /\ Compact ~> (~Running \/ Dialog.is_expanded)
    /\ [][ /\ (Closing /\ Dialog'.how = "autoClose")
                => /\ ~Dialog.is_expanded
                   /\ Dialog'.result = "Accepted"
                   /\ Dialog'.notes = << >>
           /\ (Resuming /\ Dialog.how = "autoClose")
                => /\ lastOp'.op = "addCitation"
                   /\ lastOp'.args.notes = << >>
                   /\ Saved(Dialog.citation_preview, citations')
           /\ (Closing /\ Dialog.is_expanded)
                => Dialog'.how \in {"saveNote", "saveWithNote", "skipNote"}
       ]_vars

\* a compact popup was closed by its timer and its citation became a record
C32_Witness ==
    /\ window.dialog # << >>
    /\ window.prompts = << >>
    /\ Dialog.how = "autoClose"
    /\ ~Dialog.is_expanded
    /\ lastOp.op = "addCitation"
    /\ lastOp.ret = "True"
    /\ Saved(Dialog.citation_preview, citations)

\* C33: an export, whatever its options, leaves the records of the manager
\* in their order and with their fields, and leaves the library files as
\* they are; the order of the export is the order of a copy.
C33_ExportLeavesManager ==
    [][ lastOp'.op = "exportCitations"
          => /\ citations' = citations
             /\ files' = files
             /\ library_name' = library_name
             /\ data_file' = data_file
             /\ held' = held ]_vars

\* an export by author was written whose first line is not that of the
\* first record
C33_Witness ==
    /\ lastOp.op = "exportCitations"
    /\ lastOp.args.options.sort_by_author
    /\ ~lastOp.args.options.sort_by_time
    /\ ~lastOp.args.options.include_index
    /\ Len(lastOp.out) = 2
    /\ extractFirstAuthor(citations[1].text) = "pmid"
    /\ extractFirstAuthor(citations[2].text) = "glia"
    /\ lastOp.out[1] = citations[2].text

====
